---- MODULE Spec2Model ----
(***************************************************************************)
(* Model of the Codex app-server bridge of src/server.js: the class        *)
(* CodexAppServer (lines 365-690), the module-level promise queue          *)
(* codexQueue and sendCodexPrompt (lines 749-764), and the /api/codex      *)
(* handler that awaits it (lines 914-925).                                 *)
(*                                                                         *)
(* JavaScript runs one callback at a time.  An event-loop callback (an     *)
(* HTTP request, a timer, a child-process event, a chunk of child output)  *)
(* runs to completion and then every promise continuation that became      *)
(* runnable is run before the next event-loop callback.  The model keeps   *)
(* that discipline: the actions that stand for event-loop callbacks are    *)
(* enabled only when no continuation is runnable (~MicroReady); the lines  *)
(* of one chunk of child output are handled back to back, before any       *)
(* continuation (chunkOpen).  Each action is one synchronous stretch of    *)
(* code between two awaits.                                                *)
(*                                                                         *)
(* Values nothing can read any more are dropped: the locals of a prompt    *)
(* whose HTTP reply was sent, the error message of a start() promise that  *)
(* no caller awaits any longer.                                            *)
(***************************************************************************)
EXTENDS Integers, Sequences, FiniteSets, TLC

\* ---- bounds of the model ----
MaxPrompts == 3
\* failures the environment may inject in one run: a timer that fires, an
\* error response, a failed spawn, a failed login, a child that exits
MaxFaults == 1
\* notifications one turn may log before it completes
MaxEvents == 2

\* ---- finite stand-ins for the strings the program handles ----
Cwds == {"/work/a", "/work/b"}
ThreadIds == {"t1", "t2"}
\* turn ids a notification may carry
TurnIds == {"u1", "u2"}
\* turn ids a turn/start response assigns.  The bridge only compares the id
\* of the active turn with the id of a notification, so which id the active
\* turn has does not matter: one assigned id, two notification ids.
AssignedTurnIds == {"u1"}
AccountStates == {"noauth", "hasaccount", "needlogin"}
\* what extractTextFromParams finds in an item/ notification, as a sequence
\* of characters (" " stands for any white space): <<>> when it carries no
\* text, otherwise a text that trimming shortens
ItemTexts == {<<>>, <<" ", "x">>, <<"y">>}

\* characters of diagnostics an active turn accumulates at most
MaxStderrLen == 2
\* the chunks the child writes to its stderr: a text that trimming shortens
StderrChunks == {<<"e", " ">>}

Prompts == 1..MaxPrompts
\* lines that fail to parse are counted during the turns of these prompts,
\* up to MaxNoise of them
NoisePrompts == {1}
MaxNoise == 1
\* the child writes to its stderr during the turns of these prompts only
StderrPrompts == {1}
\* the prompts whose turns the history variables turnSeen, abandoned and
\* seedReq follow
ObservedPrompts == {1}
\* the prompts during whose turn the child sends item/ notifications
ItemPrompts == {1}
\* slots for the promises of start() calls; a slot is reused (NewAttempt),
\* and ensureStarted never has more than two unsettled or unread at once
Attempts == {1, 2, 3}

VARIABLES
    proc,           \* this.proc: 0 (null) or the child process recorded
    starting,       \* this.starting: 0 (null) or the start() promise held
    nextId,         \* this.nextId
    pending,        \* this.pending: the entries, each with its request id
    threadByCwd,    \* this.threadByCwd: cwd -> thread id, "" when absent
    seededThreads,  \* this.seededThreads
    currentTurn,    \* this.currentTurn, NoTurn when null
    loginWaiter,    \* this.loginWaiter: 0 (null) or the attempt that waits
    codexQueue,     \* codexQueue: 0 (an already resolved promise) or the
                    \* prompt whose chained promise it holds
    apiKey,         \* process.env.OPENAI_API_KEY: "set", "unset", or
                    \* "unread" while nothing has read it yet
    live,           \* child processes that exist (spawn() called, not ended)
    attached,       \* children whose 'spawn' handler ran (close handler set)
    spc,            \* per start() call: position of its 'spawn' handler
    swake,          \* per start() call: settled value of the promise awaited
    startRes,       \* per start() call: state of the promise it returned
    pc,             \* per prompt: position in sendCodexPrompt / runTurn
    wake,           \* per prompt: settled value of the promise awaited
    pcwd,           \* per prompt: the cwd argument, "" while it has none
    pred,           \* per prompt: the promise its .then was chained on
    chain,          \* per prompt: the promise sendCodexPrompt returned
    awaitAtt,       \* per prompt: the start() promise it awaits
    ptid,           \* per prompt: local threadId of runTurn
    turnOut,        \* per prompt: what the turn's promise settled with,
                    \* the payload of finishTurn or the events of the
                    \* timeout error
    turnTimer,      \* prompts whose runTurn timer is armed
    chunkOpen,      \* a chunk of child output is still being split in lines
    \* ---- history variables (observation only) ----
    loggedIn,       \* live children whose initialize and login succeeded
    threadReq,      \* cwds a thread/start was written for, on this child
    threadRet,      \* per cwd: thread ids thread/start returned, this child
    turnTids,       \* per cwd: thread ids turn/start carried, on this child
    loginSeen,      \* start() calls whose child sent login-completed with
                    \* success after answering account/login/start
    turnSeen,       \* prompts whose turn/start was answered and to whose
                    \* turn the child then sent turn/completed, until
                    \* runTurn runs again
    abandoned,      \* the turn ids of the turns that timed out on the
                    \* recorded child
    seedReq,        \* per thread id: what became of the turn/start that
                    \* carried its seed block, and its request id while it
                    \* awaits the answer
    turnNoise,      \* lines that failed to parse since the active turn was
                    \* registered, as far as they are counted (NoisePrompts)
    written,        \* per child: the messages start() wrote to its stdin up
                    \* to the first request of ensureLoggedIn, in order
    turnSeeds,      \* per thread id: whether the first turn/start written
                    \* for it on this child carried the seed block, and
                    \* what the later ones carried
    runCount,       \* per prompt: number of runTurn invocations
    crashNext,      \* the first prompt submitted after a child exited
                    \* with a turn outstanding: -1 while it is awaited, 0
                    \* when there was no such exit
    faults          \* number of failures injected so far

tables == <<threadByCwd, seededThreads>>
children == <<live, attached>>
startv == <<spc, swake, startRes>>
locals == <<pcwd, pred, awaitAtt, ptid>>
thist == <<threadReq, threadRet, turnTids, turnSeeds>>
phist == <<runCount>>

vars == <<proc, starting, nextId, pending, tables, currentTurn, loginWaiter,
          codexQueue, apiKey, children, startv, pc, wake, locals, chain,
          turnOut, turnTimer, chunkOpen, loggedIn, loginSeen, written,
          turnNoise, turnSeen, abandoned, seedReq, thist, phist, crashNext, faults>>

\* ---- values ----
NoRes == [st |-> "none", kind |-> "", val |-> ""]
OkRes(v) == [st |-> "ok", kind |-> "", val |-> v]
ErrRes(k) == [st |-> "err", kind |-> k, val |-> ""]

NoTurn == [owner |-> 0, turnId |-> "", stdout |-> <<>>, stderr |-> <<>>,
           events |-> <<>>]
\* a settled turn promise that carries no output and no events
NoOut == [stdout |-> <<>>, stderr |-> <<>>, events |-> <<>>]

PromptOwner(p) == [k |-> "prompt", n |-> p]
StartOwner(a) == [k |-> "start", n |-> a]

PendingChain == [st |-> "pending", ok |-> FALSE, kind |-> "", src |-> 0]

\* the error reset() rejects with
ExitedErr == ErrRes("Codex app-server exited.")

\* ---- the event loop ----
\* the promise a queued prompt was chained on has settled
PredSettled(p) == IF pred[p] = 0 THEN TRUE ELSE chain[pred[p]].st # "pending"

PromptRunnable(p) ==
    \/ pc[p] = "queued" /\ PredSettled(p)
    \/ pc[p] \in {"es_wait", "es_own"} /\ startRes[awaitAtt[p]] # "pending"
    \/ pc[p] \in {"es_ret", "thr_ret", "done"}
    \/ pc[p] \in {"thr_wait", "ts_wait", "turn_wait"} /\ wake[p].st # "none"

StartRunnable(a) ==
    /\ spc[a] \in {"init_wait", "acct_wait", "lstart_wait", "login_wait"}
    /\ swake[a].st # "none"

\* a promise continuation is waiting to run
MicroReady ==
    \/ \E p \in Prompts : PromptRunnable(p)
    \/ \E a \in Attempts : StartRunnable(a)

\* the environment injects one more failure
Fault == faults < MaxFaults /\ faults' = faults + 1

\* ---- CodexAppServer.write / sendRpc ----
\* write() throws when this.proc is null; the child keeps stdio pipes, so
\* proc.stdin is set whenever proc is.
WriteThrows(pr) == pr = 0

\* sendRpc, `const id = this.nextId++`: the value of nextId afterwards
IdReused == nextId
IdAfterSend == nextId + 1

\* sendRpc: the entry is stored before write() is called, so an entry whose
\* write threw stays in the table with its promise already rejected (dead).
SendRpcEntry(pr, method, owner) ==
    [id |-> nextId, method |-> method, owner |-> owner,
     dead |-> WriteThrows(pr)]

\* what the caller of sendRpc gets at once: nothing, or write()'s exception
SendRpcNow(pr) ==
    IF WriteThrows(pr) THEN ErrRes("Codex app-server not running.") ELSE NoRes

PendingIds == {e.id : e \in pending}
HasPending(id) == id \in PendingIds
PendingOf(id) == CHOOSE e \in pending : e.id = id

\* settle the promise a prompt / a start attempt awaits (a promise settles once)
SettleP(w, p, res) == IF w[p].st = "none" THEN [w EXCEPT ![p] = res] ELSE w

\* deliver res to the owner of a pending entry through its resolve/reject
WakeAfter(e, res) ==
    IF e.dead \/ e.owner.k # "prompt" THEN wake
    ELSE SettleP(wake, e.owner.n, res)
SwakeAfter(e, res) ==
    IF e.dead \/ e.owner.k # "start" THEN swake
    ELSE SettleP(swake, e.owner.n, res)

\* ---- CodexAppServer.ensureStarted, the synchronous part ----
EnsureStartedNoCoalesce == IF proc # 0 THEN "return" ELSE "start"
EnsureStartedIgnoresProc == IF starting # 0 THEN "await" ELSE "start"
\* proc.killed is never true: nothing calls kill() on the codex child
EnsureStartedPath ==
    IF proc # 0 THEN "return"
    ELSE IF starting # 0 THEN "await"
    ELSE "start"

\* the slot the next start() call takes: a slot is free again once its
\* promise is settled, no caller awaits it and its child is gone
NewAttempt == CHOOSE a \in Attempts :
                 /\ spc[a] = "unused"
                 /\ \A b \in Attempts : spc[b] = "unused" => a <= b

\* the start attempts whose promise is not settled
InFlightSet == {a \in Attempts : spc[a] \notin {"unused", "settled"}}

\* ---- sendCodexPrompt ----
\* the .catch handler: the chained promise is fulfilled with an error object
CatchRethrows(kind, src) ==
    [st |-> "rejected", ok |-> FALSE, kind |-> kind, src |-> src]
CatchHandler(kind, src) ==
    [st |-> "fulfilled", ok |-> FALSE, kind |-> kind, src |-> src]

\* the .catch handler also replaces codexQueue by a resolved promise
CatchQueue == 0

\* runTurn's result passes through .then and .catch unchanged
ThenResult(p) == [st |-> "fulfilled", ok |-> TRUE, kind |-> "", src |-> p]

\* sendCodexPrompt(prompt, cwd): chain on codexQueue, store and return the
\* new promise.  Prompts are numbered in submission order.  The cwd argument
\* is first read when runTurn is called, and is drawn there.
Submit(p) ==
    /\ UNCHANGED turnNoise
    /\ UNCHANGED turnSeen
    /\ UNCHANGED abandoned
    /\ UNCHANGED seedReq
    /\ UNCHANGED turnTimer
    /\ UNCHANGED written
    /\ UNCHANGED loginSeen
    /\ UNCHANGED turnOut
    /\ ~MicroReady
    /\ pc[p] = "idle"
    /\ \A q \in Prompts : q < p => pc[q] # "idle"
    /\ pc' = [pc EXCEPT ![p] = "queued"]
    /\ pred' = [pred EXCEPT ![p] = codexQueue]
    /\ codexQueue' = p
    /\ crashNext' = IF crashNext = -1 THEN p ELSE crashNext
    /\ chunkOpen' = FALSE
    /\ UNCHANGED <<proc, starting, nextId, pending, tables, currentTurn,
                   loginWaiter, apiKey, children, startv, wake, chain, pcwd,
                   awaitAtt, ptid, loggedIn, thist, runCount, faults>>

\* runTurn rejected with kind: the .catch handler of the prompt's chain runs
FailTurn(p, kind) ==
    /\ pc' = [pc EXCEPT ![p] = "done"]
    /\ chain' = [chain EXCEPT ![p] = CatchHandler(kind, p)]
    /\ codexQueue' = CatchQueue

\* Directory names are opaque to the bridge: while it holds none, the first
\* directory a prompt names is taken to be "/work/a".
CwdKnown(c) ==
    \/ threadByCwd[c] # "" \/ c \in threadReq
    \/ threadRet[c] # {} \/ turnTids[c] # {}
    \/ \E p \in Prompts : pcwd[p] = c
CwdVals == IF \E c \in Cwds : CwdKnown(c) THEN Cwds ELSE {"/work/a"}

\* the .then callback of a queued prompt: runTurn up to the await inside
\* ensureStarted.  start() calls spawn() synchronously.
StartRun(p, cwd) ==
    /\ UNCHANGED turnNoise
    /\ UNCHANGED turnSeen
    /\ UNCHANGED abandoned
    /\ UNCHANGED seedReq
    /\ UNCHANGED turnTimer
    /\ UNCHANGED loginSeen
    /\ UNCHANGED turnOut
    /\ pc[p] = "queued"
    /\ PredSettled(p)
    /\ chunkOpen' = FALSE
    /\ pcwd' = [pcwd EXCEPT ![p] = cwd]
    /\ IF pred[p] # 0 /\ chain[pred[p]].st = "rejected"
       THEN \* .then is skipped, .catch handles the predecessor's rejection
            /\ pc' = [pc EXCEPT ![p] = "done"]
            /\ chain' = [chain EXCEPT
                            ![p] = CatchHandler(chain[pred[p]].kind,
                                                chain[pred[p]].src)]
            /\ codexQueue' = CatchQueue
            /\ UNCHANGED <<starting, live, spc, awaitAtt, runCount,
                           written>>
       ELSE /\ runCount' = [runCount EXCEPT ![p] = @ + 1]
            /\ UNCHANGED <<chain, codexQueue>>
            /\ CASE EnsureStartedPath = "return" ->
                      /\ pc' = [pc EXCEPT ![p] = "es_ret"]
                      /\ UNCHANGED <<starting, live, spc, awaitAtt, written>>
                 [] EnsureStartedPath = "await" ->
                      /\ pc' = [pc EXCEPT ![p] = "es_wait"]
                      /\ awaitAtt' = [awaitAtt EXCEPT ![p] = starting]
                      /\ UNCHANGED <<starting, live, spc, written>>
                 [] OTHER ->
                      /\ written' = [written EXCEPT ![NewAttempt] = <<>>]
                      /\ starting' = NewAttempt
                      /\ live' = live \cup {NewAttempt}
                      /\ spc' = [spc EXCEPT ![NewAttempt] = "spawning"]
                      /\ awaitAtt' = [awaitAtt EXCEPT ![p] = NewAttempt]
                      /\ pc' = [pc EXCEPT ![p] = "es_own"]
    /\ UNCHANGED <<proc, nextId, pending, tables, currentTurn, loginWaiter,
                   apiKey, attached, swake, startRes, wake, pred, ptid,
                   loggedIn, thist, crashNext, faults>>

\* a settled start() promise that no caller awaits any more
Forgotten(res) == "gone"

\* ensureStarted resumes after `await this.starting`; the caller that made
\* the start() call clears this.starting in its finally block.
\* ensureStarted, `finally { this.starting = null; }`
FinallyKeepsStarting == starting
FinallyStarting == 0

\* The reactions of a promise run in the order of their registration, and
\* the caller that made the start() call awaited it in the same job: it
\* resumes before every other caller awaiting the same promise.
OwnerResumedFirst(p) ==
    pc[p] = "es_wait"
        => ~\E q \in Prompts : pc[q] = "es_own" /\ awaitAtt[q] = awaitAtt[p]

EnsureStartedResume(p) ==
    /\ UNCHANGED turnNoise
    /\ UNCHANGED turnSeen
    /\ UNCHANGED abandoned
    /\ UNCHANGED seedReq
    /\ UNCHANGED turnTimer
    /\ UNCHANGED written
    /\ UNCHANGED loginSeen
    /\ UNCHANGED turnOut
    /\ pc[p] \in {"es_wait", "es_own"}
    /\ startRes[awaitAtt[p]] # "pending"
    /\ OwnerResumedFirst(p)
    /\ chunkOpen' = FALSE
    /\ starting' = IF pc[p] = "es_own" THEN FinallyStarting ELSE starting
    /\ IF startRes[awaitAtt[p]] = "ok"
       THEN /\ pc' = [pc EXCEPT ![p] = "es_ret"]
            /\ UNCHANGED <<chain, codexQueue>>
       ELSE FailTurn(p, startRes[awaitAtt[p]])
    /\ IF \E q \in Prompts \ {p} : /\ pc[q] \in {"es_wait", "es_own"}
                                    /\ awaitAtt[q] = awaitAtt[p]
       THEN UNCHANGED <<startRes, spc>>
       ELSE IF awaitAtt[p] \in live
       THEN /\ startRes' = [startRes EXCEPT ![awaitAtt[p]] = Forgotten(@)]
            /\ UNCHANGED spc
       ELSE /\ startRes' = [startRes EXCEPT ![awaitAtt[p]] = "pending"]
            /\ spc' = [spc EXCEPT ![awaitAtt[p]] = "unused"]
    /\ awaitAtt' = [awaitAtt EXCEPT ![p] = 0]
    /\ UNCHANGED <<proc, nextId, pending, tables, currentTurn, loginWaiter,
                   apiKey, children, swake, wake, pcwd, pred, ptid,
                   loggedIn, thist, phist, crashNext, faults>>

\* ---- CodexAppServer.getThreadId ----
\* runTurn resumes after ensureStarted and calls getThreadId: a cached id is
\* returned, otherwise thread/start is sent.
GetThread(p) ==
    /\ UNCHANGED turnNoise
    /\ UNCHANGED turnSeen
    /\ UNCHANGED abandoned
    /\ UNCHANGED seedReq
    /\ UNCHANGED turnTimer
    /\ UNCHANGED written
    /\ UNCHANGED loginSeen
    /\ UNCHANGED turnOut
    /\ pc[p] = "es_ret"
    /\ chunkOpen' = FALSE
    /\ IF threadByCwd[pcwd[p]] # ""
       THEN /\ ptid' = [ptid EXCEPT ![p] = threadByCwd[pcwd[p]]]
            /\ pc' = [pc EXCEPT ![p] = "thr_ret"]
            /\ UNCHANGED <<nextId, pending, wake, threadReq>>
       ELSE /\ nextId' = IdAfterSend
            /\ pending' = pending \cup
                              {SendRpcEntry(proc, "thread/start",
                                            PromptOwner(p))}
            /\ wake' = [wake EXCEPT ![p] = SendRpcNow(proc)]
            /\ pc' = [pc EXCEPT ![p] = "thr_wait"]
            /\ threadReq' = IF WriteThrows(proc) THEN threadReq
                            ELSE threadReq \cup {pcwd[p]}
            /\ UNCHANGED ptid
    /\ UNCHANGED <<proc, starting, tables, currentTurn, loginWaiter,
                   codexQueue, apiKey, children, startv, pcwd, pred, chain,
                   awaitAtt, loggedIn, threadRet, turnTids, turnSeeds, phist,
                   crashNext, faults>>

\* getThreadId, `if (!threadId)` on result.thread?.id
ThreadIdAlwaysPresent(v) == FALSE
ThreadIdMissing(v) == v = ""

\* getThreadId resumes with the thread/start response
ThreadResume(p) ==
    /\ UNCHANGED turnNoise
    /\ UNCHANGED turnSeen
    /\ UNCHANGED abandoned
    /\ UNCHANGED seedReq
    /\ UNCHANGED turnTimer
    /\ UNCHANGED written
    /\ UNCHANGED loginSeen
    /\ UNCHANGED turnOut
    /\ pc[p] = "thr_wait"
    /\ wake[p].st # "none"
    /\ chunkOpen' = FALSE
    /\ wake' = [wake EXCEPT ![p] = NoRes]
    /\ IF wake[p].st = "err"
       THEN /\ FailTurn(p, wake[p].kind)
            /\ UNCHANGED <<threadByCwd, ptid, threadRet>>
       ELSE IF ThreadIdMissing(wake[p].val)
       THEN /\ FailTurn(p, "Codex app-server did not return a thread id.")
            /\ UNCHANGED <<threadByCwd, ptid, threadRet>>
       ELSE /\ threadByCwd' = [threadByCwd EXCEPT ![pcwd[p]] = wake[p].val]
            /\ ptid' = [ptid EXCEPT ![p] = wake[p].val]
            /\ threadRet' = [threadRet EXCEPT
                                ![pcwd[p]] = @ \cup {wake[p].val}]
            /\ pc' = [pc EXCEPT ![p] = "thr_ret"]
            /\ UNCHANGED <<chain, codexQueue>>
    /\ UNCHANGED <<proc, starting, nextId, pending, seededThreads,
                   currentTurn, loginWaiter, apiKey, children, startv, pcwd,
                   pred, awaitAtt, loggedIn, threadReq, turnTids, turnSeeds,
                   phist, crashNext, faults>>

\* ---- CodexAppServer.buildTurnInput ----
\* the content item ahead of the prompt: the seed block when the thread is
\* not marked seeded, nothing otherwise
SeedItem(t) == IF t \notin seededThreads THEN "seed" ELSE "plain"

\* buildTurnInput marks the thread seeded
SeedMarkNever(t) == seededThreads
SeedMark(t) == seededThreads \cup {t}

NoSeeds == [t \in ThreadIds \cup {""} |-> [first |-> "none", later |-> {}]]

\* no turn/start has carried a seed block
NoSeedReqs == [t \in ThreadIds \cup {""} |-> [id |-> 0, st |-> "none"]]

\* the seed requests after the request with that id got the outcome st
SeedReqsAfter(id, st) ==
    [t \in ThreadIds \cup {""} |->
        IF seedReq[t].st = "sent" /\ seedReq[t].id = id
        THEN [id |-> 0, st |-> st] ELSE seedReq[t]]

\* ---- CodexAppServer.runTurn ----
\* runTurn resumes after getThreadId: buildTurnInput (which marks the
\* thread seeded), then turn/start
TurnStart(p) ==
    /\ UNCHANGED turnNoise
    /\ UNCHANGED turnSeen
    /\ UNCHANGED abandoned
    /\ seedReq' = IF SeedItem(ptid[p]) # "seed" \/ p \notin ObservedPrompts
                  THEN seedReq
                  ELSE [seedReq EXCEPT ![ptid[p]] =
                          IF WriteThrows(proc)
                          THEN [id |-> 0, st |-> "failed"]
                          ELSE [id |-> nextId, st |-> "sent"]]
    /\ UNCHANGED turnTimer
    /\ UNCHANGED written
    /\ UNCHANGED loginSeen
    /\ UNCHANGED turnOut
    /\ pc[p] = "thr_ret"
    /\ chunkOpen' = FALSE
    /\ seededThreads' = SeedMark(ptid[p])
    /\ nextId' = IdAfterSend
    /\ pending' = pending \cup
                      {SendRpcEntry(proc, "turn/start", PromptOwner(p))}
    /\ wake' = [wake EXCEPT ![p] = SendRpcNow(proc)]
    /\ pc' = [pc EXCEPT ![p] = "ts_wait"]
    /\ turnTids' = IF WriteThrows(proc) THEN turnTids
                   ELSE [turnTids EXCEPT ![pcwd[p]] = @ \cup {ptid[p]}]
    /\ turnSeeds' = IF WriteThrows(proc) THEN turnSeeds
                    ELSE [turnSeeds EXCEPT ![ptid[p]] =
                            IF @.first = "none"
                            THEN [@ EXCEPT !.first = SeedItem(ptid[p])]
                            ELSE [@ EXCEPT !.later =
                                     @ \cup {SeedItem(ptid[p])}]]
    /\ UNCHANGED <<proc, starting, threadByCwd, currentTurn, loginWaiter,
                   codexQueue, apiKey, children, startv, locals, chain, 
                   loggedIn, threadReq, threadRet, phist, crashNext, faults>>

\* runTurn resumes with the turn/start response and registers the turn
TurnStartResume(p) ==
    /\ UNCHANGED turnNoise
    /\ turnSeen' = turnSeen \ {p}
    /\ UNCHANGED abandoned
    /\ UNCHANGED seedReq
    /\ UNCHANGED written
    /\ UNCHANGED loginSeen
    /\ UNCHANGED turnOut
    /\ pc[p] = "ts_wait"
    /\ wake[p].st # "none"
    /\ chunkOpen' = FALSE
    /\ wake' = [wake EXCEPT ![p] = NoRes]
    /\ IF wake[p].st = "err"
       THEN /\ FailTurn(p, wake[p].kind)
            /\ UNCHANGED <<currentTurn, turnTimer>>
       ELSE IF currentTurn # NoTurn
       THEN /\ FailTurn(p, "Codex turn already in progress.")
            /\ UNCHANGED <<currentTurn, turnTimer>>
       ELSE /\ turnTimer' = turnTimer \cup {p}
            /\ currentTurn' = [owner |-> p, turnId |-> wake[p].val,
                               stdout |-> <<>>, stderr |-> <<>>,
                               events |-> <<>>]
            /\ pc' = [pc EXCEPT ![p] = "turn_wait"]
            /\ UNCHANGED <<chain, codexQueue>>
    /\ pcwd' = [pcwd EXCEPT ![p] = ""]
    /\ ptid' = [ptid EXCEPT ![p] = ""]
    /\ UNCHANGED <<proc, starting, nextId, pending, tables, loginWaiter,
                   apiKey, children, startv, pred, awaitAtt, loggedIn,
                   thist, phist, crashNext, faults>>

\* the promise runTurn returned settles: the prompt's chain settles
TurnResume(p) ==
    /\ UNCHANGED turnNoise
    /\ turnSeen' = turnSeen \ {p}
    /\ UNCHANGED abandoned
    /\ UNCHANGED seedReq
    /\ UNCHANGED turnTimer
    /\ UNCHANGED written
    /\ UNCHANGED loginSeen
    /\ UNCHANGED turnOut
    /\ pc[p] = "turn_wait"
    /\ wake[p].st # "none"
    /\ chunkOpen' = FALSE
    /\ wake' = [wake EXCEPT ![p] = NoRes]
    /\ IF wake[p].st = "err"
       THEN FailTurn(p, wake[p].kind)
       ELSE /\ pc' = [pc EXCEPT ![p] = "done"]
            /\ chain' = [chain EXCEPT ![p] = ThenResult(p)]
            /\ UNCHANGED codexQueue
    /\ UNCHANGED <<proc, starting, nextId, pending, tables, currentTurn,
                   loginWaiter, apiKey, children, startv, locals, 
                   loggedIn, thist, phist, crashNext, faults>>

\* clearTimeout(timeout) in the resolve and reject wrappers runTurn stores
\* in the active turn
ClearTimeoutNoop(p) == turnTimer
ClearTimeout(p) == turnTimer \ {p}

\* the slot after the turn timer fired
TimeoutKeepsSlot == currentTurn
TimeoutSlot == NoTurn

\* the turn timer of runTurn fires
TurnTimerFires(p) ==
    /\ UNCHANGED written
    /\ UNCHANGED loginSeen
    /\ ~MicroReady
    /\ p \in turnTimer
    /\ turnTimer' = turnTimer \ {p}
    /\ turnNoise' = 0
    /\ UNCHANGED turnSeen
    /\ abandoned' = IF currentTurn.owner \in ObservedPrompts
                    THEN abandoned \cup ({currentTurn.turnId} \ {""})
                    ELSE abandoned
    /\ UNCHANGED seedReq
    /\ chunkOpen' = FALSE
    /\ currentTurn' = TimeoutSlot
    /\ IF pc[p] = "turn_wait" /\ wake[p].st = "none"
       THEN /\ wake' = [wake EXCEPT ![p] = ErrRes("Codex turn timed out.")]
            /\ turnOut' = [turnOut EXCEPT ![p] =
                              IF currentTurn # NoTurn
                              THEN [NoOut EXCEPT !.events = currentTurn.events]
                              ELSE NoOut]
       ELSE \* the promise is settled already: reject() has no effect
            UNCHANGED <<wake, turnOut>>
    /\ UNCHANGED <<proc, starting, nextId, pending, tables, loginWaiter,
                   codexQueue, apiKey, children, startv, pc, locals, chain,
                   loggedIn, thist, phist, crashNext>>

\* a timer that fires counts as a failure the environment injects
TurnTimeout(p) == TurnTimerFires(p) /\ Fault

\* ---- the /api/codex handler ----
\* The reply touches nothing the bridge or another request reads, so where
\* it falls among the runnable continuations makes no difference: it is
\* taken after them, the earlier prompt first.
ReplyIsNext(p) ==
    /\ \A q \in Prompts : PromptRunnable(q) => (pc[q] = "done" /\ p <= q)
    /\ \A a \in Attempts : ~StartRunnable(a)


\* the handler resumes with the value of the promise sendCodexPrompt
\* returned and sends the HTTP reply; the prompt's locals are gone
Reply(p) ==
    /\ UNCHANGED turnNoise
    /\ UNCHANGED turnSeen
    /\ UNCHANGED abandoned
    /\ UNCHANGED seedReq
    /\ UNCHANGED turnTimer
    /\ UNCHANGED written
    /\ UNCHANGED loginSeen
    /\ pc[p] = "done"
    /\ ReplyIsNext(p)
    /\ chunkOpen' = FALSE
    /\ pc' = [pc EXCEPT ![p] = "replied"]
    /\ chain' = [chain EXCEPT ![p] = [@ EXCEPT !.ok = FALSE, !.kind = ""]]
    /\ pcwd' = [pcwd EXCEPT ![p] = ""]
    /\ pred' = [pred EXCEPT ![p] = 0]
    /\ ptid' = [ptid EXCEPT ![p] = ""]
    /\ runCount' = [runCount EXCEPT ![p] = 0]
    /\ turnOut' = [turnOut EXCEPT ![p] = NoOut]
    /\ crashNext' = IF crashNext = p THEN 0 ELSE crashNext
    /\ UNCHANGED <<proc, starting, nextId, pending, tables, currentTurn,
                   loginWaiter, codexQueue, apiKey, children, startv, wake,
                   awaitAtt, loggedIn, thist, faults>>

\* ---- CodexAppServer.start ----
\* the promise start() returned settles
SettleStart(a, res) ==
    /\ startRes' = [startRes EXCEPT ![a] = res]
    /\ spc' = [spc EXCEPT ![a] = "settled"]
    /\ loggedIn' = IF res = "ok" THEN loggedIn \cup {a} ELSE loggedIn

\* child 'error' event: spawn failed, the promise is rejected
SpawnError(a) ==
    /\ UNCHANGED turnNoise
    /\ UNCHANGED turnSeen
    /\ UNCHANGED abandoned
    /\ UNCHANGED seedReq
    /\ UNCHANGED turnTimer
    /\ UNCHANGED written
    /\ UNCHANGED loginSeen
    /\ UNCHANGED turnOut
    /\ ~MicroReady
    /\ spc[a] = "spawning"
    /\ a \in live
    /\ live' = live \ {a}
    /\ SettleStart(a, "spawn failed")
    /\ chunkOpen' = FALSE
    /\ Fault
    /\ UNCHANGED <<proc, starting, nextId, pending, tables, currentTurn,
                   loginWaiter, codexQueue, apiKey, attached, swake, pc,
                   wake, locals, chain, thist, phist, crashNext>>

\* what the 'spawn' handler writes to the child before its first await
SpawnWrites == <<"initialize">>

\* what start() and ensureLoggedIn write once the initialize response has
\* resolved: sendNotification('initialized'), then sendRpc('account/read')
AccountReadFirst == <<"account/read", "initialized">>
InitResumeWrites == <<"initialized", "account/read">>

\* 'spawn' handler, `this.proc = child`
HandleNotRecorded(a) == proc
HandleRecorded(a) == a

\* child 'spawn' event: record the handle, attach the handlers, send
\* initialize
SpawnOk(a) ==
    /\ UNCHANGED turnNoise
    /\ UNCHANGED turnSeen
    /\ UNCHANGED abandoned
    /\ UNCHANGED seedReq
    /\ UNCHANGED turnTimer
    /\ UNCHANGED loginSeen
    /\ UNCHANGED turnOut
    /\ ~MicroReady
    /\ spc[a] = "spawning"
    /\ a \in live
    /\ proc' = HandleRecorded(a)
    /\ attached' = attached \cup {a}
    /\ nextId' = IdAfterSend
    /\ pending' = pending \cup {SendRpcEntry(a, "initialize", StartOwner(a))}
    /\ written' = [written EXCEPT ![a] = @ \o SpawnWrites]
    /\ spc' = [spc EXCEPT ![a] = "init_wait"]
    /\ chunkOpen' = FALSE
    /\ UNCHANGED <<starting, tables, currentTurn, loginWaiter, codexQueue,
                   apiKey, live, swake, startRes, pc, wake, locals, chain,
                   loggedIn, thist, phist, crashNext, faults>>

\* the 'spawn' handler resumes with the initialize response: send the
\* initialized notification, then ensureLoggedIn sends account/read
InitResume(a) ==
    /\ UNCHANGED turnNoise
    /\ UNCHANGED turnSeen
    /\ UNCHANGED abandoned
    /\ UNCHANGED seedReq
    /\ UNCHANGED turnTimer
    /\ UNCHANGED loginSeen
    /\ UNCHANGED turnOut
    /\ spc[a] = "init_wait"
    /\ swake[a].st # "none"
    /\ chunkOpen' = FALSE
    /\ swake' = [swake EXCEPT ![a] = NoRes]
    /\ IF swake[a].st = "err"
       THEN /\ SettleStart(a, swake[a].kind)
            /\ UNCHANGED <<nextId, pending, written>>
       ELSE IF WriteThrows(proc)
       THEN /\ SettleStart(a, "Codex app-server not running.")
            /\ UNCHANGED <<nextId, pending, written>>
       ELSE /\ nextId' = IdAfterSend
            /\ pending' = pending \cup
                              {SendRpcEntry(proc, "account/read",
                                            StartOwner(a))}
            /\ written' = [written EXCEPT ![proc] = @ \o InitResumeWrites]
            /\ spc' = [spc EXCEPT ![a] = "acct_wait"]
            /\ UNCHANGED <<startRes, loggedIn>>
    /\ UNCHANGED <<proc, starting, tables, currentTurn, loginWaiter,
                   codexQueue, apiKey, children, pc, wake, locals, chain,
                   thist, phist, crashNext, faults>>

\* ---- CodexAppServer.ensureLoggedIn ----
\* no login when authentication is not required or an account is present
LoginOnlyWithoutAuth(info) == info = "noauth"
LoginNotNeeded(info) == info \in {"noauth", "hasaccount"}

\* `if (!apiKey)` on process.env.OPENAI_API_KEY
KeyNeverMissing(k) == FALSE
KeyMissing(k) == k = "unset"

\* ensureLoggedIn resumes with the account/read response
AcctResume(a) ==
    /\ UNCHANGED turnNoise
    /\ UNCHANGED turnSeen
    /\ UNCHANGED abandoned
    /\ UNCHANGED seedReq
    /\ UNCHANGED turnTimer
    /\ UNCHANGED written
    /\ UNCHANGED loginSeen
    /\ UNCHANGED turnOut
    /\ spc[a] = "acct_wait"
    /\ swake[a].st # "none"
    /\ chunkOpen' = FALSE
    /\ IF swake[a].st = "err"
       THEN /\ SettleStart(a, swake[a].kind)
            /\ swake' = [swake EXCEPT ![a] = NoRes]
            /\ UNCHANGED <<nextId, pending, apiKey>>
       ELSE IF LoginNotNeeded(swake[a].val)
       THEN /\ SettleStart(a, "ok")
            /\ swake' = [swake EXCEPT ![a] = NoRes]
            /\ UNCHANGED <<nextId, pending, apiKey>>
       ELSE /\ apiKey' \in (IF apiKey = "unread" THEN {"set", "unset"}
                             ELSE {apiKey})
            /\ IF KeyMissing(apiKey')
               THEN /\ SettleStart(a, "OPENAI_API_KEY is not set.")
                    /\ swake' = [swake EXCEPT ![a] = NoRes]
                    /\ UNCHANGED <<nextId, pending>>
               ELSE /\ nextId' = IdAfterSend
                    /\ pending' = pending \cup
                                     {SendRpcEntry(proc,
                                                   "account/login/start",
                                                   StartOwner(a))}
                    /\ swake' = [swake EXCEPT ![a] = SendRpcNow(proc)]
                    /\ spc' = [spc EXCEPT ![a] = "lstart_wait"]
                    /\ UNCHANGED <<startRes, loggedIn>>
    /\ UNCHANGED <<proc, starting, tables, currentTurn, loginWaiter,
                   codexQueue, children, pc, wake, locals, chain, 
                   thist, phist, crashNext, faults>>

\* ensureLoggedIn resumes with the account/login/start response and
\* installs the login waiter
LoginStartResume(a) ==
    /\ UNCHANGED turnNoise
    /\ UNCHANGED turnSeen
    /\ UNCHANGED abandoned
    /\ UNCHANGED seedReq
    /\ UNCHANGED turnTimer
    /\ UNCHANGED written
    /\ UNCHANGED loginSeen
    /\ UNCHANGED turnOut
    /\ spc[a] = "lstart_wait"
    /\ swake[a].st # "none"
    /\ chunkOpen' = FALSE
    /\ swake' = [swake EXCEPT ![a] = NoRes]
    /\ IF swake[a].st = "err"
       THEN /\ SettleStart(a, swake[a].kind)
            /\ UNCHANGED loginWaiter
       ELSE /\ loginWaiter' = a
            /\ spc' = [spc EXCEPT ![a] = "login_wait"]
            /\ UNCHANGED <<startRes, loggedIn>>
    /\ UNCHANGED <<proc, starting, nextId, pending, tables, currentTurn,
                   codexQueue, apiKey, children, pc, wake, locals, chain,
                   thist, phist, crashNext, faults>>

\* the login promise settles: start() resolves or rejects
LoginResume(a) ==
    /\ UNCHANGED turnNoise
    /\ UNCHANGED turnSeen
    /\ UNCHANGED abandoned
    /\ UNCHANGED seedReq
    /\ UNCHANGED turnTimer
    /\ UNCHANGED written
    /\ UNCHANGED turnOut
    /\ loginSeen' = loginSeen \ {a}
    /\ spc[a] = "login_wait"
    /\ swake[a].st # "none"
    /\ chunkOpen' = FALSE
    /\ swake' = [swake EXCEPT ![a] = NoRes]
    /\ SettleStart(a, IF swake[a].st = "ok" THEN "ok" ELSE swake[a].kind)
    /\ UNCHANGED <<proc, starting, nextId, pending, tables, currentTurn,
                   loginWaiter, codexQueue, apiKey, children, pc, wake,
                   locals, chain, thist, phist, crashNext, faults>>

\* the login timer of ensureLoggedIn fires
LoginTimerFires(a) ==
    /\ UNCHANGED turnNoise
    /\ UNCHANGED turnSeen
    /\ UNCHANGED abandoned
    /\ UNCHANGED seedReq
    /\ UNCHANGED turnTimer
    /\ UNCHANGED written
    /\ UNCHANGED loginSeen
    /\ UNCHANGED turnOut
    /\ ~MicroReady
    /\ spc[a] = "login_wait"
    /\ swake[a].st = "none"
    /\ chunkOpen' = FALSE
    /\ loginWaiter' = 0
    /\ swake' = [swake EXCEPT ![a] = ErrRes("Codex login timed out.")]
    /\ UNCHANGED <<proc, starting, nextId, pending, tables, currentTurn,
                   codexQueue, apiKey, children, spc, startRes, pc, wake,
                   locals, chain, loggedIn, thist, phist, crashNext>>

\* a timer that fires counts as a failure the environment injects
LoginTimeout(a) == LoginTimerFires(a) /\ Fault

\* ---- timers and child events ----
\* what the timer of a pending request settles its promise with
TimerSilent(e) == NoRes
TimerRejects(e) == ErrRes("Codex app-server timeout on " \o e.method)

\* the entries the timer of entry e deletes: this.pending.delete(id)
TimerKeepsEntry(e) == {}
TimerDeletes(e) == {e}

\* the timer of a pending request fires (sendRpc's setTimeout callback)
RpcTimerFires(id) ==
    /\ UNCHANGED turnNoise
    /\ UNCHANGED turnSeen
    /\ UNCHANGED abandoned
    /\ seedReq' = SeedReqsAfter(id, "failed")
    /\ UNCHANGED turnTimer
    /\ UNCHANGED written
    /\ UNCHANGED loginSeen
    /\ UNCHANGED turnOut
    /\ ~MicroReady
    /\ HasPending(id)
    /\ chunkOpen' = FALSE
    /\ LET e == PendingOf(id)
           res == TimerRejects(e)
       IN /\ pending' = pending \ TimerDeletes(e)
          /\ wake' = WakeAfter(e, res)
          /\ swake' = SwakeAfter(e, res)
    /\ UNCHANGED <<proc, starting, nextId, tables, currentTurn, loginWaiter,
                   codexQueue, apiKey, children, spc, startRes, pc, locals,
                   chain, loggedIn, thist, phist, crashNext>>

\* a timer that fires counts as a failure the environment injects
RpcTimeout(id) == RpcTimerFires(id) /\ Fault

\* ---- CodexAppServer.reset ----
ResetKeepsSeeded == seededThreads
ResetSeededThreads == {}

\* reset(), `this.threadByCwd.clear()`
ResetKeepsThreads == threadByCwd
ResetThreadByCwd == [c \in Cwds |-> ""]

\* the waiters reset() rejects: every pending entry, then the active turn,
\* then the login waiter
ResetWake ==
    [p \in Prompts |->
        IF wake[p].st = "none" /\
           (\/ \E e \in pending : ~e.dead /\ e.owner = PromptOwner(p)
            \/ currentTurn.owner = p)
        THEN ExitedErr ELSE wake[p]]
ResetSwake ==
    [a \in Attempts |->
        IF swake[a].st = "none" /\
           (\/ \E e \in pending : ~e.dead /\ e.owner = StartOwner(a)
            \/ loginWaiter = a)
        THEN ExitedErr ELSE swake[a]]

\* reset, `this.loginWaiter = null` after the waiter is rejected
ResetKeepsLoginWaiter == loginWaiter
ResetLoginWaiter == 0

\* child 'close' event of a spawned child: this.reset()
ProcClose(c) ==
    /\ UNCHANGED written
    /\ UNCHANGED turnOut
    /\ loginSeen' = loginSeen \ {c}
    /\ ~MicroReady
    /\ c \in attached
    /\ live' = live \ {c}
    /\ attached' = attached \ {c}
    /\ proc' = 0
    /\ threadByCwd' = ResetThreadByCwd
    /\ seededThreads' = ResetSeededThreads
    /\ pending' = {}
    /\ currentTurn' = NoTurn
    /\ turnNoise' = 0
    /\ UNCHANGED turnSeen
    /\ abandoned' = {}
    /\ seedReq' = NoSeedReqs
    /\ turnTimer' = IF currentTurn # NoTurn
                    THEN ClearTimeout(currentTurn.owner) ELSE turnTimer
    /\ loginWaiter' = ResetLoginWaiter
    /\ wake' = ResetWake
    /\ swake' = ResetSwake
    /\ crashNext' = IF currentTurn # NoTurn THEN -1 ELSE crashNext
    /\ loggedIn' = loggedIn \ {c}
    /\ threadReq' = {}
    /\ threadRet' = [d \in Cwds |-> {}]
    /\ turnTids' = [d \in Cwds |-> {}]
    /\ turnSeeds' = NoSeeds
    /\ chunkOpen' = FALSE
    /\ Fault
    /\ spc' = IF spc[c] = "settled" THEN [spc EXCEPT ![c] = "unused"] ELSE spc
    /\ startRes' = IF spc[c] = "settled"
                   THEN [startRes EXCEPT ![c] = "pending"] ELSE startRes
    /\ UNCHANGED <<starting, nextId, codexQueue, apiKey, pc, locals, chain,
                   phist>>

\* ---- CodexAppServer.handleLine / handleNotification ----
\* a line may be handled when the event loop is free, or back to back with
\* the previous line of the same chunk
LineMayArrive(c) == c \in attached /\ (chunkOpen \/ ~MicroReady)

\* Thread ids are opaque to the bridge: while it holds none, the first id
\* the child hands out is taken to be "t1".
ThreadIdKnown(t) ==
    \/ t \in seededThreads
    \/ \E c \in Cwds :
          threadByCwd[c] = t \/ t \in threadRet[c] \/ t \in turnTids[c]
    \/ \E p \in Prompts : ptid[p] = t \/ wake[p].val = t
ThreadIdVals ==
    IF \E t \in ThreadIds : ThreadIdKnown(t) THEN ThreadIds ELSE {"t1"}

\* the result payloads a response to a request of that method can carry, as
\* the caller reads them ("" when the field is missing)
ResultVals(method) ==
    CASE method = "thread/start" -> ThreadIdVals \cup {""}
      [] method = "turn/start" -> AssignedTurnIds \cup {""}
      [] method = "account/read" -> AccountStates
      [] OTHER -> {""}

\* handleLine, this.pending.get(message.id): the entries a response with
\* that id settles
ResponseEntriesAll(id) == pending
ResponseEntries(id) == {e \in pending : e.id = id}

\* the prompts / start() calls whose awaited promise the entries es settle
PromptsSettledBy(es) ==
    {p \in Prompts : wake[p].st = "none" /\
                      \E e \in es : ~e.dead /\ e.owner = PromptOwner(p)}
StartsSettledBy(es) ==
    {a \in Attempts : swake[a].st = "none" /\
                       \E e \in es : ~e.dead /\ e.owner = StartOwner(a)}

\* handleLine, `catch (error) { return; }` after JSON.parse: the pending
\* table when the handler returns
ParseErrorClears == {}
ParseErrorReturns == pending

\* handleLine with a line JSON.parse rejects
GarbageLine(c) ==
    /\ UNCHANGED turnSeen
    /\ UNCHANGED abandoned
    /\ UNCHANGED seedReq
    /\ LineMayArrive(c)
    /\ pending' = ParseErrorReturns
    /\ turnNoise' = IF /\ currentTurn # NoTurn
                       /\ currentTurn.owner \in NoisePrompts
                       /\ turnNoise < MaxNoise
                    THEN turnNoise + 1 ELSE turnNoise
    /\ UNCHANGED <<proc, starting, nextId, tables, currentTurn, loginWaiter,
                   codexQueue, apiKey, children, startv, pc, wake, locals,
                   chain, turnOut, turnTimer, loggedIn, loginSeen, written,
                   thist, phist, crashNext, faults>>
    /\ chunkOpen' = MicroReady'

\* handleLine, a message with a numeric id: the matching entry is removed
\* and its promise settled; a message whose id matches no entry is dropped
Response(c, id, isErr, val) ==
    /\ UNCHANGED turnNoise
    /\ UNCHANGED turnSeen
    /\ UNCHANGED abandoned
    /\ seedReq' = SeedReqsAfter(id, IF isErr THEN "failed" ELSE "accepted")
    /\ UNCHANGED turnTimer
    /\ UNCHANGED written
    /\ UNCHANGED loginSeen
    /\ UNCHANGED turnOut
    /\ LineMayArrive(c)
    /\ isErr => val = ""
    /\ LET es == ResponseEntries(id)
           res == IF isErr THEN ErrRes("Codex error") ELSE OkRes(val)
       IN /\ pending' = pending \ es
          /\ wake' = [p \in Prompts |->
                        IF p \in PromptsSettledBy(es) THEN res ELSE wake[p]]
          /\ swake' = [a \in Attempts |->
                         IF a \in StartsSettledBy(es) THEN res ELSE swake[a]]
          /\ IF \E e \in es :
                    isErr \/ (e.method = "thread/start" /\ val = "")
             THEN Fault ELSE UNCHANGED faults
    /\ UNCHANGED <<proc, starting, nextId, tables, currentTurn, loginWaiter,
                   codexQueue, apiKey, children, spc, startRes, pc, locals,
                   chain, loggedIn, thist, phist, crashNext>>
    /\ chunkOpen' = MicroReady'

\* the ids of the requests sent so far
IssuedIds == 1..(nextId - 1)
\* The ids a response can carry.  handleLine only looks the id up in
\* this.pending, so the ids that match nothing all behave alike: the latest
\* of them stands for all.
ResponseIds ==
    PendingIds \cup
    {i \in IssuedIds \ PendingIds : \A j \in IssuedIds \ PendingIds : j <= i}
\* the fields of a response that decide what handleLine does: the error
\* and the result only when the id matches a pending entry
ErrorVals(id) == IF HasPending(id) THEN BOOLEAN ELSE {FALSE}
ResponseVals(id) ==
    IF HasPending(id) THEN ResultVals(PendingOf(id).method) ELSE {""}

\* the account/login/start request of attempt a has been answered
\* successfully and the login has not completed
LoginStartAnswered(a) ==
    \/ spc[a] = "lstart_wait" /\ swake[a].st = "ok"
    \/ spc[a] = "login_wait" /\ swake[a].st = "none"

\* handleNotification, `this.loginWaiter = null` when the waiter is taken
LoginWaiterKept == loginWaiter
LoginWaiterTaken == 0

\* handleNotification, account/login/completed: consumed by the login
\* waiter when there is one; otherwise it has no summary, no text and is
\* not turn/completed, so nothing changes
NotifyLoginCompleted(c, success) ==
    /\ UNCHANGED turnNoise
    /\ UNCHANGED turnSeen
    /\ UNCHANGED abandoned
    /\ UNCHANGED seedReq
    /\ UNCHANGED turnTimer
    /\ UNCHANGED written
    /\ UNCHANGED turnOut
    /\ loginSeen' = IF success /\ LoginStartAnswered(c)
                    THEN loginSeen \cup {c} ELSE loginSeen
    /\ LineMayArrive(c)
    /\ IF loginWaiter # 0
       THEN /\ loginWaiter' = LoginWaiterTaken
            /\ swake' = SettleP(swake, loginWaiter,
                                IF success THEN OkRes("")
                                ELSE ErrRes("Codex login failed."))
       ELSE UNCHANGED <<loginWaiter, swake>>
    /\ IF loginWaiter # 0 /\ ~success THEN Fault ELSE UNCHANGED faults
    /\ UNCHANGED <<proc, starting, nextId, pending, tables, currentTurn,
                   codexQueue, apiKey, children, spc, startRes, pc, wake,
                   locals, chain, loggedIn, thist, phist, crashNext>>
    /\ chunkOpen' = MicroReady'

\* ---- extractTextFromParams / summarizeCodexNotification ----
RECURSIVE CollapseWs(_)
\* text.replace(/\s+/g, ' ')
CollapseWs(s) ==
    IF Len(s) <= 1 THEN s
    ELSE IF s[1] = " " /\ s[2] = " " THEN CollapseWs(Tail(s))
    ELSE <<s[1]>> \o CollapseWs(Tail(s))

RECURSIVE TrimLeft(_)
TrimLeft(s) == IF s # <<>> /\ s[1] = " " THEN TrimLeft(Tail(s)) ELSE s
RECURSIVE TrimRight(_)
TrimRight(s) ==
    IF s # <<>> /\ s[Len(s)] = " "
    THEN TrimRight(SubSeq(s, 1, Len(s) - 1)) ELSE s
\* String.prototype.trim
Trim(s) == TrimRight(TrimLeft(s))

\* the snippet of an item summary
Snippet(text) ==
    LET t == Trim(CollapseWs(text))
    IN  IF Len(t) > 120 THEN SubSeq(t, 1, 117) \o <<"...">> ELSE t

\* summarizeCodexNotification for the methods the child sends during a
\* turn; none of them has a null summary
Summary(method, text) ==
    CASE method = "turn/completed" -> [k |-> "turn/completed", s |-> <<>>]
      [] method = "item" /\ text # <<>> -> [k |-> "item", s |-> Snippet(text)]
      [] OTHER -> [k |-> "item: (non-text)", s |-> <<>>]

\* the turn id check of handleNotification: the notification is dropped
\* when both ids are present and differ
TurnIdNeverMismatch(tid) == FALSE
TurnIdMismatch(tid) ==
    tid # "" /\ currentTurn.turnId # "" /\ tid # currentTurn.turnId

\* handleNotification logs the summary in the active turn before it looks
\* at the turn id
Logged(method, text) ==
    [currentTurn EXCEPT !.events = Append(@, Summary(method, text))]

\* finishTurn: the payload the active turn resolves with
FinishPayload(turn) ==
    [stdout |-> Trim(turn.stdout), stderr |-> Trim(turn.stderr),
     events |-> turn.events]

\* handleNotification, `if (!this.currentTurn) return;`, which comes before
\* anything that looks at the method
ItemsNeedNoTurn(method) == currentTurn = NoTurn /\ method # "item"
NoActiveTurn(method) == currentTurn = NoTurn

\* the turns a turn/completed with turn id tid is for: the turn whose
\* turn/start has been answered (with that id, when both have one) and
\* which runTurn has not registered yet, and the turn that waits in the
\* active-turn slot
TurnStartAnswered(p, tid) ==
    /\ pc[p] = "ts_wait"
    /\ wake[p].st = "ok"
    /\ (tid = "" \/ wake[p].val = "" \/ tid = wake[p].val)

TurnWaiting(p, tid) ==
    /\ pc[p] = "turn_wait"
    /\ wake[p].st = "none"
    /\ currentTurn.owner = p
    /\ (tid = "" \/ currentTurn.turnId = "" \/ tid = currentTurn.turnId)

\* handleNotification, turn/completed carrying turn id tid ("" when none):
\* finishTurn resolves the active turn
NotifyTurnCompleted(c, tid) ==
    /\ turnSeen' = turnSeen \cup {p \in ObservedPrompts :
                                    \/ TurnStartAnswered(p, tid)
                                    \/ TurnWaiting(p, tid)}
    /\ UNCHANGED abandoned
    /\ UNCHANGED seedReq
    /\ UNCHANGED written
    /\ UNCHANGED loginSeen
    /\ LineMayArrive(c)
    /\ IF NoActiveTurn("turn/completed")
       THEN UNCHANGED <<currentTurn, wake, turnOut, turnTimer, turnNoise>>
       ELSE IF TurnIdMismatch(tid)
       THEN /\ Len(currentTurn.events) < MaxEvents
            /\ currentTurn' = Logged("turn/completed", <<>>)
            /\ UNCHANGED <<wake, turnOut, turnTimer, turnNoise>>
       ELSE /\ currentTurn' = NoTurn
            /\ turnNoise' = 0
            /\ turnTimer' = ClearTimeout(currentTurn.owner)
            /\ wake' = SettleP(wake, currentTurn.owner, OkRes(""))
            /\ turnOut' = [turnOut EXCEPT ![currentTurn.owner] =
                    FinishPayload(Logged("turn/completed", <<>>))]
    /\ UNCHANGED <<proc, starting, nextId, pending, tables, loginWaiter,
                   codexQueue, apiKey, children, startv, pc, locals, chain,
                   loggedIn, thist, phist, crashNext, faults>>
    /\ chunkOpen' = MicroReady'

\* handleNotification, `this.currentTurn.stdout += text`
PrependText(out, text) == text \o out
AppendText(out, text) == out \o text

\* handleNotification, an item/ notification carrying turn id tid and the
\* text extractTextFromParams finds in it
NotifyItem(c, tid, text) ==
    /\ UNCHANGED turnNoise
    /\ UNCHANGED turnSeen
    /\ UNCHANGED abandoned
    /\ UNCHANGED seedReq
    /\ UNCHANGED turnTimer
    /\ UNCHANGED written
    /\ UNCHANGED loginSeen
    /\ LineMayArrive(c)
    /\ IF NoActiveTurn("item")
       THEN UNCHANGED currentTurn
       ELSE /\ Len(currentTurn.events) < MaxEvents
            /\ currentTurn' =
                 IF TurnIdMismatch(tid)
                 THEN Logged("item", text)
                 ELSE [Logged("item", text) EXCEPT
                          !.stdout = AppendText(@, text)]
    /\ UNCHANGED <<proc, starting, nextId, pending, tables, loginWaiter,
                   codexQueue, apiKey, children, startv, pc, wake, locals,
                   chain, turnOut, loggedIn, thist, phist, crashNext,
                   faults>>
    /\ chunkOpen' = MicroReady'

\* child.stderr 'data' handler of start(): the chunk is appended to the
\* diagnostics of the active turn (startupStderr, which only ends up in the
\* text of the initialize timeout error, is not kept)
StderrData(c, message) ==
    /\ UNCHANGED turnNoise
    /\ UNCHANGED turnSeen
    /\ UNCHANGED abandoned
    /\ UNCHANGED seedReq
    /\ UNCHANGED turnTimer
    /\ UNCHANGED written
    /\ UNCHANGED loginSeen
    /\ ~MicroReady
    /\ c \in attached
    /\ IF currentTurn = NoTurn
       THEN UNCHANGED currentTurn
       ELSE /\ currentTurn.owner \in StderrPrompts
            /\ Len(currentTurn.stderr) + Len(message) <= MaxStderrLen
            /\ currentTurn' = [currentTurn EXCEPT !.stderr = @ \o message]
    /\ chunkOpen' = FALSE
    /\ UNCHANGED <<proc, starting, nextId, pending, tables, loginWaiter,
                   codexQueue, apiKey, children, startv, pc, wake, locals,
                   chain, turnOut, loggedIn, thist, phist, crashNext,
                   faults>>

\* the fields of a notification that decide what handleNotification does:
\* params.success only when a login waiter exists, the turn id only when
\* the active turn has one or, being without one, may be taken for a turn
\* that was abandoned; the text only when a turn is active
SuccessVals == IF loginWaiter = 0 THEN {TRUE} ELSE BOOLEAN
TurnIdVals ==
    IF currentTurn = NoTurn THEN {""}
    ELSE IF currentTurn.turnId = "" THEN abandoned \cup {""}
    ELSE TurnIds \cup {""}
\* Texts are opaque to the bridge: while the output of the active turn is
\* empty a notification with text carries " x", afterwards "y".  The child
\* sends item/ notifications while no turn is registered and during the
\* turns of ItemPrompts.
TextVals ==
    IF currentTurn = NoTurn THEN {<<>>}
    ELSE IF currentTurn.owner \notin ItemPrompts THEN {}
    ELSE IF currentTurn.stdout = <<>> THEN {<<>>, <<" ", "x">>}
    ELSE {<<>>, <<"y">>}

\* ---- the bridge as a whole ----
Init ==
    /\ proc = 0
    /\ starting = 0
    /\ nextId = 1
    /\ pending = {}
    /\ threadByCwd = [c \in Cwds |-> ""]
    /\ seededThreads = {}
    /\ currentTurn = NoTurn
    /\ loginWaiter = 0
    /\ codexQueue = 0
    /\ apiKey = "unread"
    /\ live = {}
    /\ attached = {}
    /\ spc = [a \in Attempts |-> "unused"]
    /\ swake = [a \in Attempts |-> NoRes]
    /\ startRes = [a \in Attempts |-> "pending"]
    /\ pc = [p \in Prompts |-> "idle"]
    /\ wake = [p \in Prompts |-> NoRes]
    /\ pcwd = [p \in Prompts |-> ""]
    /\ pred = [p \in Prompts |-> 0]
    /\ chain = [p \in Prompts |-> PendingChain]
    /\ awaitAtt = [p \in Prompts |-> 0]
    /\ ptid = [p \in Prompts |-> ""]
    /\ turnOut = [p \in Prompts |-> NoOut]
    /\ chunkOpen = FALSE
    /\ loggedIn = {}
    /\ threadReq = {}
    /\ threadRet = [c \in Cwds |-> {}]
    /\ turnTids = [c \in Cwds |-> {}]
    /\ turnSeeds = NoSeeds
    /\ loginSeen = {}
    /\ written = [a \in Attempts |-> <<>>]
    /\ turnTimer = {}
    /\ turnNoise = 0
    /\ turnSeen = {}
    /\ abandoned = {}
    /\ seedReq = NoSeedReqs
    /\ runCount = [p \in Prompts |-> 0]
    /\ crashNext = 0
    /\ faults = 0

Next ==
    \/ \E p \in Prompts : Submit(p)
    \/ \E p \in Prompts, cwd \in CwdVals : StartRun(p, cwd)
    \/ \E p \in Prompts : EnsureStartedResume(p)
    \/ \E p \in Prompts : GetThread(p)
    \/ \E p \in Prompts : ThreadResume(p)
    \/ \E p \in Prompts : TurnStart(p)
    \/ \E p \in Prompts : TurnStartResume(p)
    \/ \E p \in Prompts : TurnResume(p)
    \/ \E p \in Prompts : TurnTimeout(p)
    \/ \E p \in Prompts : Reply(p)
    \/ \E a \in Attempts : SpawnError(a)
    \/ \E a \in Attempts : SpawnOk(a)
    \/ \E a \in Attempts : InitResume(a)
    \/ \E a \in Attempts : AcctResume(a)
    \/ \E a \in Attempts : LoginStartResume(a)
    \/ \E a \in Attempts : LoginResume(a)
    \/ \E a \in Attempts : LoginTimeout(a)
    \/ \E id \in PendingIds : RpcTimeout(id)
    \/ \E c \in attached : ProcClose(c)
    \/ \E c \in attached, id \in ResponseIds :
          \E isErr \in ErrorVals(id), val \in ResponseVals(id) :
            Response(c, id, isErr, val)
    \/ \E c \in attached, success \in SuccessVals :
            NotifyLoginCompleted(c, success)
    \/ \E c \in attached, tid \in TurnIdVals :
            NotifyTurnCompleted(c, tid)
    \/ \E c \in attached, tid \in TurnIdVals, text \in TextVals :
            NotifyItem(c, tid, text)
    \/ \E c \in attached, message \in StderrChunks : StderrData(c, message)
    \/ \E c \in attached : GarbageLine(c)

Spec == Init /\ [][Next]_vars

\* ---- the bridge with timers that always fire ----
MaxLivePrompts == 2

\* the continuations the event loop has queued
Continuations ==
    \/ \E p \in Prompts, cwd \in CwdVals : StartRun(p, cwd)
    \/ \E p \in Prompts : EnsureStartedResume(p)
    \/ \E p \in Prompts : GetThread(p)
    \/ \E p \in Prompts : ThreadResume(p)
    \/ \E p \in Prompts : TurnStart(p)
    \/ \E p \in Prompts : TurnStartResume(p)
    \/ \E p \in Prompts : TurnResume(p)
    \/ \E p \in Prompts : Reply(p)
    \/ \E a \in Attempts : InitResume(a)
    \/ \E a \in Attempts : AcctResume(a)
    \/ \E a \in Attempts : LoginStartResume(a)
    \/ \E a \in Attempts : LoginResume(a)

\* an armed timer fires, whatever failures there were before
Timers ==
    \/ \E id \in PendingIds : RpcTimerFires(id) /\ UNCHANGED faults
    \/ \E p \in Prompts : TurnTimerFires(p) /\ UNCHANGED faults
    \/ \E a \in Attempts : LoginTimerFires(a) /\ UNCHANGED faults

\* the child process reports the outcome of spawn()
SpawnReports == \E a \in Attempts : SpawnOk(a) \/ SpawnError(a)

\* what the child writes, and its exit
ChildEvents ==
    \/ \E c \in attached : ProcClose(c)
    \/ \E c \in attached, id \in ResponseIds :
          \E isErr \in ErrorVals(id), val \in ResponseVals(id) :
            Response(c, id, isErr, val)
    \/ \E c \in attached, success \in SuccessVals :
            NotifyLoginCompleted(c, success)
    \/ \E c \in attached, tid \in TurnIdVals :
            NotifyTurnCompleted(c, tid)
    \/ \E c \in attached, tid \in TurnIdVals, text \in TextVals :
            NotifyItem(c, tid, text)
    \/ \E c \in attached, message \in StderrChunks : StderrData(c, message)
    \/ \E c \in attached : GarbageLine(c)

LiveNext ==
    \/ \E p \in 1..MaxLivePrompts : Submit(p)
    \/ Continuations
    \/ Timers
    \/ SpawnReports
    \/ ChildEvents

LiveSpec ==
    /\ Init
    /\ [][LiveNext]_vars
    /\ WF_vars(Continuations)
    /\ WF_vars(Timers)
    /\ WF_vars(SpawnReports)

\* ======================================================================
\* Properties
\* ======================================================================

\* the promise runTurn returned for prompt q has settled
RunTurnOver(q) ==
    \/ pc[q] \in {"done", "replied"}
    \/ pc[q] = "turn_wait" /\ wake[q].st # "none"

\* prompt p has written its turn/start request and awaits the response
TurnStartWritten(p) ==
    /\ pc[p] = "ts_wait"
    /\ \E e \in pending : e.owner = PromptOwner(p) /\ ~e.dead

\* C1: at most one turn in flight.  No turn/start request is written (and
\* outstanding) while the runTurn of an earlier-submitted prompt has neither
\* resolved nor failed.
C1_OneTurnInFlight ==
    \A p, q \in Prompts :
        (q < p /\ TurnStartWritten(p)) => RunTurnOver(q)

\* C2: FIFO order.  A prompt whose runTurn has begun was submitted after
\* prompts whose runTurn has all finished: a later prompt never begins
\* before an earlier one has finished.
C2_FifoOrder ==
    \A p, q \in Prompts :
        (q < p /\ pc[p] \notin {"idle", "queued"}) => RunTurnOver(q)

\* C3: failure isolation.  When the promise sendCodexPrompt returned for a
\* prompt settles, runTurn was invoked exactly once for that prompt and the
\* value is the outcome of that prompt's own runTurn, whatever happened to
\* the prompts queued before it.
C3_FailureIsolation ==
    \A p \in Prompts :
        pc[p] = "done" => runCount[p] = 1 /\ chain[p].src = p

\* a prompt queued behind a failed prompt has been run
C3_Witness ==
    \E p, q \in Prompts :
        /\ pc[q] = "done" /\ ~chain[q].ok
        /\ pred[p] = q
        /\ pc[p] \notin {"idle", "queued"} /\ runCount[p] = 1

\* the rejections of start() that come from the initialize exchange or
\* from the login flow
InitLoginFailures ==
    {"Codex app-server timeout on initialize",
     "Codex app-server timeout on account/read",
     "Codex app-server timeout on account/login/start",
     "Codex error",
     "OPENAI_API_KEY is not set.",
     "Codex login failed.",
     "Codex login timed out."}

\* C4: after a start attempt fails during initialization or login the
\* bridge is Stopped: no subprocess handle is recorded, so that the next
\* ensureStarted call spawns again.
C4_StoppedAfterFailedStart ==
    \A a \in Attempts :
        startRes[a] \in InitLoginFailures =>
            proc = 0 /\ (starting = 0 => EnsureStartedPath = "start")

\* C5: no thread/start and no turn/start request is written to a child on
\* which the initialize exchange and the login flow have not both
\* succeeded.
C5_ReadyBeforeThreadOrTurn ==
    \A e \in pending :
        (e.method \in {"thread/start", "turn/start"} /\ ~e.dead)
            => proc \in loggedIn

\* C6: start coalescing.  While ensureStarted calls overlap a start attempt
\* there is one attempt in flight, one child, one initialize request and
\* one account/read request.
C6_SingleStartAttempt ==
    /\ Cardinality(InFlightSet) <= 1
    /\ Cardinality(live) <= 1
    /\ Cardinality({e \in pending : e.method = "initialize"}) <= 1
    /\ Cardinality({e \in pending : e.method = "account/read"}) <= 1
    /\ \A p \in Prompts :
         (pc[p] = "es_wait" /\ awaitAtt[p] \in InFlightSet)
             => awaitAtt[p] = starting

\* a second caller awaits the attempt another caller started
C6_Witness ==
    \E p, q \in Prompts :
        /\ pc[p] = "es_own" /\ pc[q] = "es_wait"
        /\ awaitAtt[q] = awaitAtt[p]
        /\ awaitAtt[p] \in InFlightSet

\* C7: an ensureStarted call made while a start attempt is underway waits
\* for that attempt: ensureStarted never returns successfully while the
\* attempt's initialization and login have not finished.
C7_WaitsForAttempt ==
    \A p \in Prompts : pc[p] = "es_ret" => InFlightSet = {}

\* C8: when the child exits, reset rejects every pending request, the
\* active turn and the login waiter with the 'exited' failure, and leaves
\* every table empty and no handle recorded.
C8_ResetOnExit ==
    [][\A c \in Attempts :
         ProcClose(c) =>
           /\ proc' = 0
           /\ pending' = {}
           /\ currentTurn' = NoTurn
           /\ loginWaiter' = 0
           /\ \A d \in Cwds : threadByCwd'[d] = ""
           /\ seededThreads' = {}
           /\ \A e \in pending :
                IF e.owner.k = "prompt" THEN wake'[e.owner.n] = ExitedErr
                ELSE swake'[e.owner.n] = ExitedErr
           /\ currentTurn # NoTurn => wake'[currentTurn.owner] = ExitedErr
           /\ loginWaiter # 0 => swake'[loginWaiter] = ExitedErr]_vars

\* the child exited while a turn was active on a seeded thread
C8_Witness ==
    /\ proc = 0
    /\ crashNext = -1
    /\ \E p \in Prompts : pc[p] = "turn_wait" /\ wake[p] = ExitedErr

\* C9: crash recovery.  The caller of a turn outstanding when the child
\* exits receives the 'exited' failure, and the next prompt submitted
\* afterwards writes its turn/start only to a child that was spawned,
\* initialized and logged in after the exit, and after a thread/start for
\* its directory on that child.
C9_CrashRecovery ==
    /\ [][\A c \in Attempts :
            (ProcClose(c) /\ currentTurn # NoTurn)
                => wake'[currentTurn.owner] = ExitedErr]_vars
    /\ [](\A p \in Prompts :
            (crashNext = p /\ TurnStartWritten(p))
                => proc \in loggedIn /\ pcwd[p] \in threadReq)

\* C10: thread stability.  Within one child's lifetime the turn/start
\* requests for one directory all carry the same thread id, an id that a
\* thread/start for that directory returned.
C10_ThreadStability ==
    \A c \in Cwds :
        /\ Cardinality(turnTids[c]) <= 1
        /\ turnTids[c] \subseteq threadRet[c]

\* C11: seed-once.  Within one child's lifetime the first turn/start
\* written for a thread carries the seed block ahead of the prompt, and
\* every later turn/start for that thread carries the prompt only.
C11_SeedOnce ==
    \A t \in ThreadIds :
        /\ turnSeeds[t].first # "plain"
        /\ "seed" \notin turnSeeds[t].later

\* a second turn was written for a thread
C11_Witness ==
    \E t \in ThreadIds :
        turnSeeds[t].first = "seed" /\ turnSeeds[t].later = {"plain"}

\* C12: notification isolation.  While a turn is active and has a turn id,
\* an item/ or turn/completed notification that carries another turn id
\* leaves the turn's accumulated output as it was and does not finalize
\* the turn: the slot keeps its owner, no waiter is settled and no result
\* is delivered.
C12_NotificationIsolation ==
    [][\A c \in attached, tid \in TurnIds :
          (/\ currentTurn # NoTurn
           /\ currentTurn.turnId # ""
           /\ tid # currentTurn.turnId
           /\ \/ NotifyTurnCompleted(c, tid)
              \/ \E text \in ItemTexts : NotifyItem(c, tid, text))
          => /\ currentTurn'.stdout = currentTurn.stdout
             /\ currentTurn'.owner = currentTurn.owner
             /\ currentTurn'.turnId = currentTurn.turnId
             /\ wake' = wake
             /\ turnOut' = turnOut]_vars

\* a text item and a completion of another turn were handled while this
\* turn was active: it is still active and has no output
C12_Witness ==
    /\ currentTurn # NoTurn
    /\ currentTurn.stdout = <<>>
    /\ Len(currentTurn.events) = 2
    /\ currentTurn.events[1] = [k |-> "item", s |-> <<"x">>]
    /\ currentTurn.events[2].k = "turn/completed"

\* C13: a notification whose turn id differs from the id of the active turn
\* is ignored entirely: it leaves every field of the active turn as it
\* was, the event log included.
C13_MismatchIgnoredEntirely ==
    [][\A c \in attached, tid \in TurnIds :
          (/\ currentTurn # NoTurn
           /\ currentTurn.turnId # ""
           /\ tid # currentTurn.turnId
           /\ \/ NotifyTurnCompleted(c, tid)
              \/ \E text \in ItemTexts : NotifyItem(c, tid, text))
          => currentTurn' = currentTurn]_vars

\* C14: turn timeout.  When the timer of a waiting turn fires, the turn's
\* waiter is rejected with the timeout failure, the failure carries the
\* events the turn had logged, the active-turn slot becomes empty, and the
\* child handle, the thread bindings, the seeded threads and the pending
\* requests stay as they were.
C14_TurnTimeout ==
    [][\A p \in Prompts :
          TurnTimeout(p)
          => /\ currentTurn.owner = p
             /\ wake'[p] = ErrRes("Codex turn timed out.")
             /\ turnOut'[p].events = currentTurn.events
             /\ currentTurn' = NoTurn
             /\ UNCHANGED <<proc, threadByCwd, seededThreads, pending>>]_vars

\* a turn that had logged events has just timed out; the child is still
\* recorded
C14_Witness ==
    \E p \in Prompts :
        /\ wake[p] = ErrRes("Codex turn timed out.")
        /\ turnOut[p].events # <<>>
        /\ currentTurn = NoTurn
        /\ proc # 0
        /\ \E c \in Cwds : threadByCwd[c] # ""

\* C15: a prompt whose turn failed is surfaced to its caller as a rejected
\* operation: the promise sendCodexPrompt returned for it is rejected.
C15_FailureRejects ==
    \A p \in Prompts :
        (pc[p] = "done" /\ ~chain[p].ok) => chain[p].st = "rejected"

\* C17: the failure 'Codex turn already in progress.' is unreachable: no
\* runTurn ever finds an active turn registered when it is about to
\* register its own.
C17_NoTurnInProgressFailure ==
    \A p \in Prompts : chain[p].kind # "Codex turn already in progress."

\* a thread/start request of prompt p is outstanding
ThreadStartOutstanding(p) ==
    \E e \in pending :
        e.owner = PromptOwner(p) /\ e.method = "thread/start" /\ ~e.dead

\* C18: at most one thread/start request is outstanding at any time, and
\* two thread/start requests for the same working directory are never
\* outstanding together.
C18_OneThreadStart ==
    /\ Cardinality({p \in Prompts : ThreadStartOutstanding(p)}) <= 1
    /\ \A p, q \in Prompts :
          (p # q /\ ThreadStartOutstanding(p) /\ ThreadStartOutstanding(q))
              => pcwd[p] # pcwd[q]

\* C19: login completion.  Once the login-start request has been answered,
\* a login-completed notification with success = true resolves the login
\* flow, also when it comes right behind the response: from then until
\* start() reads the outcome, the flow is waiting resolved.  The login
\* timeout, or a notification with success = false, leaves it rejected.
C19_LoginCompletion ==
    /\ \A a \in loginSeen :
          spc[a] = "login_wait" /\ swake[a] = OkRes("")
    /\ \A a \in Attempts :
          (spc[a] = "login_wait" /\ swake[a].st = "err" /\ a \in live)
              => swake[a].kind \in {"Codex login timed out.",
                                    "Codex login failed."}

\* C20: login not needed.  When the account/read response says that no
\* authentication is required, or that an account is present, the start
\* attempt succeeds in that step; no account/login/start request is sent
\* and no login waiter is installed.
C20_LoginNotNeeded ==
    [][\A a \in Attempts :
          (/\ AcctResume(a)
           /\ swake[a].st = "ok"
           /\ swake[a].val \in {"noauth", "hasaccount"})
          => /\ startRes'[a] = "ok"
             /\ spc'[a] = "settled"
             /\ UNCHANGED <<loginWaiter, pending, nextId, apiKey>>]_vars

\* an attempt has succeeded with two requests sent (initialize and
\* account/read) and the credential never read
C20_Witness ==
    \E a \in Attempts :
        /\ startRes[a] = "ok"
        /\ a \in loggedIn
        /\ loginWaiter = 0
        /\ apiKey = "unread"
        /\ nextId = 3

\* C16: bounded waiting.  With timers that fire and a spawn that reports,
\* every prompt submitted through sendCodexPrompt gets its reply, whatever
\* the child sends or fails to send.
C16_BoundedWaiting ==
    \A p \in Prompts : (pc[p] = "queued") ~> (pc[p] = "replied")

\* a prompt is about to be answered after its turn timed out
C16_Witness ==
    \E p \in Prompts :
        pc[p] = "done" /\ chain[p].kind = "Codex turn timed out."

\* C21: missing credential.  When account/read says that authentication is
\* required and no account is present, and OPENAI_API_KEY is not set, the
\* login flow fails in that step: no account/login/start request is
\* written, no login waiter is installed, the start() promise is rejected,
\* and every caller of ensureStarted that awaits it fails with that error.
C21_MissingCredential ==
    [][/\ \A a \in Attempts :
            (/\ AcctResume(a)
             /\ swake[a].st = "ok"
             /\ swake[a].val = "needlogin"
             /\ apiKey' = "unset")
            => /\ startRes'[a] = "OPENAI_API_KEY is not set."
               /\ spc'[a] = "settled"
               /\ a \notin loggedIn'
               /\ UNCHANGED <<pending, nextId, loginWaiter>>
       /\ \A p \in Prompts :
            (/\ EnsureStartedResume(p)
             /\ startRes[awaitAtt[p]] = "OPENAI_API_KEY is not set.")
            => /\ pc'[p] = "done"
               /\ ~chain'[p].ok
               /\ chain'[p].kind = "OPENAI_API_KEY is not set."]_vars

\* a prompt's turn has failed for want of a credential; only initialize
\* and account/read were sent
C21_Witness ==
    \E p \in Prompts :
        /\ pc[p] = "done"
        /\ chain[p].kind = "OPENAI_API_KEY is not set."
        /\ apiKey = "unset"
        /\ nextId = 3
        /\ loginWaiter = 0

\* what a response may touch: the pending table and the waiters, besides
\* the rest of the bridge's state
BridgeState ==
    <<pending, wake, swake, proc, starting, currentTurn, loginWaiter,
      tables, nextId>>

\* C22: response correlation.  A response whose id is that of a pending
\* request removes exactly that entry and settles its waiter, with the
\* result or, when the response carries an error, with the error; every
\* other entry and every other waiter is left alone.  A response whose id
\* matches no entry changes nothing: no step that changes the bridge's
\* state is the handling of such a response.  (Handling a response moves
\* no coroutine, so only such steps need to be looked at.)
C22_ResponseCorrelation ==
    [][(UNCHANGED <<pc, spc>> /\ BridgeState' # BridgeState) =>
       \A c \in attached, id \in ResponseIds :
         \A isErr \in ErrorVals(id), val \in ResponseVals(id) :
           Response(c, id, isErr, val)
           => /\ \E e \in pending : e.id = id
              /\ LET e == CHOOSE x \in pending : x.id = id
                      res == IF isErr THEN ErrRes("Codex error")
                             ELSE OkRes(val)
                 IN /\ pending' = pending \ {e}
                    /\ \A p \in Prompts :
                         wake'[p] = IF ~e.dead /\ e.owner = PromptOwner(p)
                                    THEN res ELSE wake[p]
                    /\ \A a \in Attempts :
                         swake'[a] = IF ~e.dead /\ e.owner = StartOwner(a)
                                     THEN res ELSE swake[a]
                    /\ UNCHANGED <<proc, starting, currentTurn, loginWaiter,
                                   tables, nextId>>]_vars

\* a thread/start response has been delivered to its waiter while another
\* request is still pending
C22_Witness ==
    \E p \in Prompts :
        /\ pc[p] = "thr_wait"
        /\ wake[p].st = "ok"
        /\ wake[p].val \in ThreadIds
        /\ pending # {}

\* C23: request timeout.  When the timer of a pending request fires, its
\* entry is removed from the pending table and its waiter is rejected with
\* the timeout failure.  From then on no entry carries that id: the lookup
\* handleLine makes for it finds nothing, the id lies below nextId, and
\* nextId never decreases and bounds the ids of all entries; so a response
\* with that id that arrives afterwards settles nothing.
C23_RequestTimeout ==
    [][/\ nextId' >= nextId
       /\ \A e \in pending' : e.id < nextId'
       /\ \A id \in PendingIds :
            RpcTimeout(id)
            => LET e == CHOOSE x \in pending : x.id = id
                   res == ErrRes("Codex app-server timeout on " \o e.method)
               IN /\ pending' = pending \ {e}
                  /\ ResponseEntries(id)' = {}
                  /\ PromptsSettledBy(ResponseEntries(id))' = {}
                  /\ StartsSettledBy(ResponseEntries(id))' = {}
                  /\ id < nextId'
                  /\ \A p \in Prompts :
                       wake'[p] = IF ~e.dead /\ e.owner = PromptOwner(p)
                                  THEN res ELSE wake[p]
                  /\ \A a \in Attempts :
                       swake'[a] = IF ~e.dead /\ e.owner = StartOwner(a)
                                   THEN res ELSE swake[a]]_vars

\* a prompt's thread/start has timed out, the prompt has moved on, and the
\* bridge is running with no request pending
C23_Witness ==
    \E p \in Prompts :
        /\ pc[p] = "done"
        /\ chain[p].kind = "Codex app-server timeout on thread/start"
        /\ pending = {}
        /\ proc # 0

\* C24: request ids are strictly increasing over the whole life of the
\* bridge, restarts of the child included: nextId never decreases, a
\* request that is sent takes the current nextId and moves nextId past it,
\* so the ids of the pending requests are pairwise distinct and all below
\* nextId, and no id is used twice.
C24_IdsIncrease ==
    [][/\ nextId' >= nextId
       /\ \A e \in pending' \ pending : e.id = nextId /\ nextId' > e.id
       /\ \A e \in pending' : e.id < nextId'
       /\ \A e1, e2 \in pending' : e1.id = e2.id => e1 = e2]_vars

\* the initialize request of a restarted child is pending together with a
\* request of a prompt; its id continues the numbering
C24_Witness ==
    \E e1, e2 \in pending :
        /\ e1.method = "initialize"
        /\ e1.id > 3
        /\ e2.owner.k = "prompt"

\* the caller that made the start() call knows of the spawn failure and has
\* not yet cleared this.starting
SpawnFailureUnread ==
    \E p \in Prompts :
        pc[p] = "es_own" /\ startRes[awaitAtt[p]] = "spawn failed"

\* C25: spawn failure is retryable.  When the child reports an error
\* instead of spawning, the start() promise is rejected and no handle is
\* recorded; the caller that made the attempt clears this.starting before
\* anyone calls ensureStarted again; and the next ensureStarted call, which
\* finds neither a handle nor an attempt, spawns a new child.
C25_SpawnFailureRetry ==
    [][/\ \A a \in Attempts :
            SpawnError(a)
            => /\ startRes'[a] = "spawn failed"
               /\ proc' = 0
               /\ a \notin attached'
       /\ \A p \in Prompts :
            (/\ EnsureStartedResume(p)
             /\ pc[p] = "es_own"
             /\ startRes[awaitAtt[p]] = "spawn failed")
            => /\ starting' = 0
               /\ proc' = 0
               /\ pc'[p] = "done"
               /\ chain'[p].kind = "spawn failed"
       /\ \A p \in Prompts :
            (\E cwd \in Cwds : StartRun(p, cwd)) /\ runCount'[p] # runCount[p]
            => /\ ~SpawnFailureUnread
               /\ (proc = 0 /\ starting = 0)
                    => /\ pc'[p] = "es_own"
                       /\ starting' # 0
                       /\ spc[starting'] = "unused"
                       /\ spc'[starting'] = "spawning"
                       /\ starting' \in live']_vars

\* a second child is being spawned for a prompt after the spawn of the
\* first one failed
C25_Witness ==
    \E p, q \in Prompts :
        /\ chain[p].kind = "spawn failed"
        /\ pc[q] = "es_own"
        /\ spc[awaitAtt[q]] = "spawning"

\* C26: ensureStarted is idempotent on a running bridge.  A call made while
\* the child is recorded and its initialization and login have succeeded
\* returns at once: no child is spawned, no request is written and no
\* bridge state changes.
C26_EnsureStartedIdempotent ==
    [][\A p \in Prompts :
         (/\ \E cwd \in Cwds : StartRun(p, cwd)
          /\ runCount'[p] # runCount[p]
          /\ proc # 0
          /\ proc \in loggedIn)
         => /\ pc'[p] = "es_ret"
            /\ BridgeState' = BridgeState
            /\ UNCHANGED <<live, attached, spc, startRes, awaitAtt,
                           loggedIn>>]_vars

\* a prompt whose predecessor's turn succeeded has returned from
\* ensureStarted on the same child, which never failed
C26_Witness ==
    \E p \in Prompts :
        /\ pc[p] = "es_ret"
        /\ pred[p] # 0
        /\ chain[pred[p]].ok
        /\ proc # 0
        /\ proc \in loggedIn
        /\ faults = 0

\* C27: start ordering.  To one child the bridge writes one initialize
\* request, then one 'initialized' notification, then the account/read
\* request of the login flow, in this order; the notification and
\* account/read are written only by the continuation that received the
\* successful initialize response, when no initialize request is pending.
C27_StartOrdering ==
    [][\A a \in Attempts :
         /\ written'[a] \in {<<>>, <<"initialize">>,
                             <<"initialize", "initialized", "account/read">>}
         /\ (/\ written'[a] # written[a]
             /\ \E i \in 1..Len(written'[a]) :
                    written'[a][i] \in {"initialized", "account/read"})
            => /\ written[a] = <<"initialize">>
               /\ spc[a] = "init_wait"
               /\ swake[a].st = "ok"
               /\ ~\E e \in pending : e.method = "initialize"
               /\ \E e \in pending' \ pending :
                    e.method = "account/read" /\ e.owner = StartOwner(a)]_vars

\* a child has been sent the three messages and the attempt awaits the
\* account/read response
C27_Witness ==
    \E a \in Attempts :
        /\ spc[a] = "acct_wait"
        /\ written[a] = <<"initialize", "initialized", "account/read">>
        /\ \E e \in pending : e.method = "account/read"

C29_LoginRouting ==
    [][\A c \in attached, success \in BOOLEAN :
         (NotifyLoginCompleted(c, success) /\ loginWaiter # 0)
         => /\ loginWaiter' = 0
            /\ swake[loginWaiter].st = "none"
            /\ swake'[loginWaiter].st = IF success THEN "ok" ELSE "err"
            /\ UNCHANGED <<currentTurn, pending, threadByCwd,
                           seededThreads>>]_vars

\* the login waiter has just been resolved by the notification while a
\* turn is active
C29_Witness ==
    \E a \in Attempts :
        /\ spc[a] = "login_wait"
        /\ swake[a].st = "ok"
        /\ loginWaiter = 0
        /\ currentTurn # NoTurn

\* the state of the bridge and of the promises it settles
NotificationFrame ==
    <<proc, starting, nextId, pending, threadByCwd, seededThreads,
      currentTurn, loginWaiter, turnTimer, wake, swake, turnOut, chain,
      codexQueue>>

\* C30: a notification handled while no turn is active, other than an
\* account/login/completed taken by a pending login waiter, is discarded:
\* the bridge state and every promise are unchanged, and a turn registered
\* later starts with empty output, empty diagnostics and an empty event log.
C30_DiscardedWithoutTurn ==
    [][/\ \A c \in attached :
            (/\ currentTurn = NoTurn
             /\ \/ \E tid \in TurnIds \cup {""}, text \in ItemTexts :
                      NotifyItem(c, tid, text)
                \/ \E tid \in TurnIds \cup {""} : NotifyTurnCompleted(c, tid)
                \/ /\ loginWaiter = 0
                   /\ \E success \in BOOLEAN :
                        NotifyLoginCompleted(c, success))
            => NotificationFrame' = NotificationFrame
       /\ (currentTurn = NoTurn /\ currentTurn' # NoTurn)
            => /\ currentTurn'.stdout = <<>>
               /\ currentTurn'.stderr = <<>>
               /\ currentTurn'.events = <<>>]_vars

\* the child's account/login/completed was handled while there was neither
\* a turn nor a login waiter (login/start is answered, its continuation has
\* not run yet), and nothing of the bridge took it up
C30_Witness ==
    \E a \in Attempts :
        /\ a \in loginSeen
        /\ spc[a] = "lstart_wait"
        /\ swake[a].st = "ok"
        /\ loginWaiter = 0
        /\ currentTurn = NoTurn

\* C31: within a turn the accumulated output is the concatenation, in
\* arrival order, of the texts of the item/ notifications accepted for it.
\* A turn is registered with empty output; an accepted item/ notification
\* appends its text at the end; a notification with a mismatching turn id
\* leaves the output as it is; and no other step changes the output of a
\* turn that stays active.
C31_OutputConcatenation ==
    [][/\ (currentTurn = NoTurn /\ currentTurn' # NoTurn)
            => currentTurn'.stdout = <<>>
       /\ \A c \in attached, tid \in TurnIds \cup {""}, text \in ItemTexts :
            (NotifyItem(c, tid, text) /\ currentTurn # NoTurn)
            => /\ currentTurn'.owner = currentTurn.owner
               /\ currentTurn'.stdout =
                    IF \/ tid = ""
                       \/ currentTurn.turnId = ""
                       \/ tid = currentTurn.turnId
                    THEN currentTurn.stdout \o text
                    ELSE currentTurn.stdout
       /\ (currentTurn # NoTurn /\ currentTurn' # NoTurn)
            => /\ currentTurn'.owner = currentTurn.owner
               /\ currentTurn'.stdout # currentTurn.stdout
                    => \E c \in attached, tid \in TurnIds \cup {""},
                          text \in ItemTexts \ {<<>>} :
                         /\ NotifyItem(c, tid, text)
                         /\ \/ tid = ""
                            \/ currentTurn.turnId = ""
                            \/ tid = currentTurn.turnId]_vars

\* the active turn has accumulated two different texts in the order of
\* their arrival
C31_Witness ==
    /\ currentTurn # NoTurn
    /\ currentTurn.stdout = <<" ", "x", "y">>

\* C32: a line that fails to parse is dropped without effect.  The pending
\* table, the active turn, the login waiter, the thread bindings and the
\* handle are unchanged, no promise is settled, and the line reader goes on
\* with the lines that follow.
C32_GarbageDropped ==
    [][\A c \in attached :
         GarbageLine(c)
         => /\ UNCHANGED <<pending, currentTurn, loginWaiter, threadByCwd,
                           seededThreads, proc, starting, nextId>>
            /\ UNCHANGED <<wake, swake, startRes, chain, turnOut, turnTimer>>
            /\ c \in attached'
            /\ LineMayArrive(c)']_vars

\* a line that failed to parse was dropped during the active turn, which
\* holds the text of a notification
C32_Witness ==
    /\ turnNoise = 1
    /\ currentTurn # NoTurn
    /\ currentTurn.stdout # <<>>
    /\ proc # 0

\* C33: thread creation failure.  When the thread/start response carries no
\* thread id, the turn fails with that error; the thread bindings and the
\* seeded set stay as they are and no request is written; and every
\* getThreadId call that finds no binding for its directory, a later one
\* for the same directory included, writes a new thread/start request.
C33_ThreadCreationFailure ==
    [][/\ \A p \in Prompts :
            (/\ ThreadResume(p)
             /\ wake[p].st = "ok"
             /\ wake[p].val = "")
            => /\ pc'[p] = "done"
               /\ ~chain'[p].ok
               /\ chain'[p].kind =
                    "Codex app-server did not return a thread id."
               /\ UNCHANGED <<threadByCwd, seededThreads, pending, nextId,
                              currentTurn, ptid, turnTids>>
       /\ \A q \in Prompts :
            (GetThread(q) /\ threadByCwd[pcwd[q]] = "")
            => \E e \in pending' \ pending :
                  /\ e.method = "thread/start"
                  /\ e.owner = PromptOwner(q)
                  /\ e.id = nextId]_vars

\* after a prompt failed for want of a thread id, a later prompt for the
\* same directory has a thread/start request pending
C33_Witness ==
    \E p, q \in Prompts :
        /\ pc[p] = "done"
        /\ chain[p].kind = "Codex app-server did not return a thread id."
        /\ pcwd[q] = pcwd[p]
        /\ pc[q] = "thr_wait"
        /\ threadByCwd[pcwd[q]] = ""
        /\ \E e \in pending :
              e.method = "thread/start" /\ e.owner = PromptOwner(q)

\* C34: at most one child process exists at any time.  A child is spawned
\* only by a step taken when no handle is recorded, no start attempt is in
\* flight and no child exists, and that step spawns exactly one.
C34_OneSubprocess ==
    [][/\ Cardinality(live') <= 1
       /\ (live' \ live # {})
            => /\ proc = 0
               /\ starting = 0
               /\ live = {}
               /\ \E p \in Prompts, cwd \in Cwds : StartRun(p, cwd)]_vars

\* a new child is being spawned after the previous one exited with a
\* prompt's request or turn outstanding
C34_Witness ==
    \E a \in Attempts, p \in Prompts :
        /\ live = {a}
        /\ spc[a] = "spawning"
        /\ chain[p].kind = "Codex app-server exited."

\* C35: at most one login attempt is outstanding.  A login waiter is
\* installed only in an empty slot, by the continuation that received a
\* successful account/login/start response; while the slot is full its
\* start attempt is waiting for the login on a live child; and the slot is
\* emptied only by account/login/completed, by the login timer or by the
\* exit of the child.
C35_OneLoginWaiter ==
    [][/\ (loginWaiter' # 0 /\ loginWaiter' # loginWaiter)
            => /\ loginWaiter = 0
               /\ LoginStartResume(loginWaiter')
               /\ spc[loginWaiter'] = "lstart_wait"
               /\ swake[loginWaiter'].st = "ok"
       /\ loginWaiter' # 0
            => /\ spc'[loginWaiter'] = "login_wait"
               /\ swake'[loginWaiter'].st = "none"
               /\ loginWaiter' \in live'
               /\ proc' = loginWaiter'
       /\ (loginWaiter # 0 /\ loginWaiter' = 0)
            => \/ \E c \in attached, success \in BOOLEAN :
                     NotifyLoginCompleted(c, success)
               \/ LoginTimerFires(loginWaiter)
               \/ \E c \in attached : ProcClose(c)]_vars

\* a login waiter is pending for the start attempt that two callers of
\* ensureStarted are awaiting
C35_Witness ==
    \E p, q \in Prompts :
        /\ loginWaiter # 0
        /\ spc[loginWaiter] = "login_wait"
        /\ swake[loginWaiter].st = "none"
        /\ pc[p] = "es_own" /\ awaitAtt[p] = loginWaiter
        /\ pc[q] = "es_wait" /\ awaitAtt[q] = loginWaiter

\* C36: no notification of a started turn is lost.  A turn whose
\* turn/start was answered successfully and whose completion event the
\* child then sent, even right behind the response, has observed it: its
\* waiter is resolved with the payload of the turn.
C36_StartedTurnObserves ==
    \A p \in turnSeen :
        /\ pc[p] = "turn_wait"
        /\ wake[p] = OkRes("")

\* C37: after a turn has timed out locally, an event the child emits later
\* for that abandoned turn, carrying its turn id, adds no text to a turn
\* started afterwards and does not finalize it, also when the later turn
\* was given no turn id.
C37_LateEventsIgnored ==
    [][\A c \in attached, tid \in abandoned :
          (/\ currentTurn # NoTurn
           /\ currentTurn.turnId # tid
           /\ \/ NotifyTurnCompleted(c, tid)
              \/ \E text \in ItemTexts : NotifyItem(c, tid, text))
          => /\ currentTurn'.owner = currentTurn.owner
             /\ currentTurn'.stdout = currentTurn.stdout
             /\ wake' = wake]_vars

\* C38: a thread id is in the seeded-thread set only if a turn/start
\* carrying the seed block for that thread was accepted by the child: when
\* the turn/start that carried the seed has failed, by an error response, a
\* request timeout or a failed write, the thread is not in the set and no
\* later turn/start on that thread goes without the seed block.
C38_SeededOnlyIfAccepted ==
    \A t \in ThreadIds :
        seedReq[t].st = "failed"
            => /\ t \notin seededThreads
               /\ "plain" \notin turnSeeds[t].later

\* C39: client-side bookkeeping never outlives the child.  In every state
\* in which no child handle is recorded, the pending-request table, the
\* active-turn slot, the login-waiter slot, the thread bindings and the
\* seeded-thread set are empty.
C39_NothingOutlivesChild ==
    proc = 0
        => /\ pending = {}
           /\ currentTurn = NoTurn
           /\ loginWaiter = 0
           /\ threadByCwd = [c \in Cwds |-> ""]
           /\ seededThreads = {}

\* the child has exited with a turn registered: reset() has rejected the
\* turn and emptied the bookkeeping, and no handle is recorded
C39_Witness ==
    \E p \in Prompts :
        /\ proc = 0
        /\ pc[p] = "turn_wait"
        /\ wake[p] = ExitedErr

====
